---- MODULE Spec2Model ----
(***************************************************************************)
(* A model of cachedb: a sharded, concurrent key/value cache.  Entries     *)
(* live in per-bucket HashSets, are threaded through a per-bucket          *)
(* intrusive LRU list while nobody uses them, and are handed out behind    *)
(* read/write guards.                                                      *)
(*                                                                         *)
(* Granularity.  A critical section of the LRU mutex acquires nothing      *)
(* else, and a critical section of the map mutex acquires only the LRU     *)
(* mutex and the write lock of an entry nobody else can reach yet, so      *)
(* each critical section is one atomic step.  Dropping an Entry*Guard is   *)
(* two steps: Drop::drop runs unuse_entry first, the RwLock guard field    *)
(* is released afterwards.                                                 *)
(***************************************************************************)
EXTENDS Integers, Sequences, FiniteSets, TLC

\* ---------------------------------------------------------------- bounds
NumThreads == 2
NumKeys == 3
MaxValue == 2
MaxCtorValue == 1
MaxGuards == 1
MaxRecGuards == 2
MaxRecUse == 3
MaxUse == 2
MaxEvict == 2
MaxDisabled == 1
TargetCooldown == 0
MaxCooldown == 2
MaxPeak == 4

MaxBuckets == 2

Threads == 1..NumThreads
\* the threads that call CacheDb::evict
Evictors == {NumThreads}
Keys == 0..(NumKeys - 1)
Values == 1..MaxValue
\* what a constructor builds; a stored value above MaxCtorValue was written
\* through a write guard
CtorValues == 1..MaxCtorValue
None == 0

\* ------------------------------------------------- program constants
cold_target_default == 50
cold_max == 60
cold_min == 5
min_entries_limit == 1000
max_entries_limit == 10000000
maxused_reduction == 10000
evict_batch == 4

\* The locking methods.  Duration(d) and Deadline(t) both wait and then give
\* up; without a clock they are one method, "Timed".
Methods == {"Blocking", "TryLock", "Timed"}

VARIABLES
    N,                 \* const N: usize of CacheDb<K, V, N>, the number of buckets
    map,               \* Bucket.map: [Buckets -> SUBSET Keys], the keys with an entry
    ent,               \* the Entry stored under each key (NoEnt when there is none)
    lru_list,          \* Bucket.lru_list: [Buckets -> Seq(Keys)], front = coldest
    cold,              \* Bucket.cold
    maxused,           \* Bucket.maxused
    maxused_countdown, \* Bucket.maxused_countdown
    maxused_cooldown,  \* Bucket.maxused_cooldown
    lru_disabled,      \* CacheDb.lru_disabled (AtomicU32)
    pc,                \* position of each thread
    ctx,               \* the call a thread is in the middle of
    held,              \* the guards each thread holds: [Threads -> [Keys -> [r, w]]]
    stale,             \* <<t, k>>: t still refers to an entry of k that was freed
    ret                \* what the step just taken returned to its caller (NoRet: nothing)

vars == <<N, map, ent, lru_list, cold, maxused, maxused_countdown, maxused_cooldown,
          lru_disabled, pc, ctx, held, stale, ret>>

shared == <<map, ent, lru_list, cold, maxused, maxused_countdown>>

Buckets == 0..(N - 1)

\* ---------------------------------------------------------------- helpers
RECURSIVE SeqWithout(_, _)
SeqWithout(s, x) ==
    IF s = <<>> THEN <<>>
    ELSE IF Head(s) = x THEN SeqWithout(Tail(s), x)
         ELSE <<Head(s)>> \o SeqWithout(Tail(s), x)

InSeq(s, x) == \E i \in 1..Len(s) : s[i] = x

Max(a, b) == IF a >= b THEN a ELSE b

\* Bucketize::bucket::<N> of the u16 keys of the test module
bucket(k) == k % N

\* Entry::new: empty value slot, one use owned by the creator, not linked.
\* writer and readers are the state of the RwLock around the value; ctors is a
\* history field, the number of constructors that ran for this entry.
Entry_new ==
    [value |-> None, use_count |-> 1, writer |-> 0, readers |-> 0, ctors |-> 0,
     expire |-> FALSE]

NoEnt ==
    [value |-> None, use_count |-> 0, writer |-> 0, readers |-> 0, ctors |-> 0,
     expire |-> FALSE]

\* gone is a history field: the entries the running CacheDb::evict has taken out
\* of the maps so far, counted on the maps.  lru is what a miss found when it
\* loaded lru_disabled: TRUE for 0.
NoCtx == [op |-> "none", key |-> 0, method |-> "none", rec |-> FALSE,
          kind |-> "none", n |-> 0, i |-> 0, acc |-> 0, gone |-> 0, lru |-> FALSE]

\* what a call returned: tag is the variant, val the count of CacheDb::evict
Res(tag, val) == [tag |-> tag, val |-> val]

NoRet == Res("none", 0)

\* The shared state of the cache as one record, so that the bucket methods
\* compose as functions.
Cache ==
    [map |-> map, ent |-> ent, lru |-> lru_list, cold |-> cold,
     maxused |-> maxused, countdown |-> maxused_countdown]

Store(c) ==
    /\ map' = c.map
    /\ ent' = c.ent
    /\ lru_list' = c.lru
    /\ cold' = c.cold
    /\ maxused' = c.maxused
    /\ maxused_countdown' = c.countdown

\* entry.lru_link.is_linked()
is_linked(c, k) == InSeq(c.lru[bucket(k)], k)

\* ------------------------------------------------------------ Bucket
\* update_maxused that takes the decay off on every call, whatever the countdown
update_maxused_hasty(c, b, reduction) ==
    LET now_used == Cardinality(c.map[b]) + 1 - c.cold[b]
        peak == Max(c.maxused[b], now_used)
    IN  [c EXCEPT !.countdown[b] =
                      IF c.countdown[b] > 0 THEN c.countdown[b] - 1
                      ELSE maxused_cooldown[b],
                  !.maxused[b] =
                      IF peak > 0 /\ peak # now_used
                      THEN peak - ((peak \div reduction) + 1)
                      ELSE peak]

\* Bucket::update_maxused with the value it loads from maxused_reduction.  The
\* caller holds the map mutex.  The usize subtractions are kept as integers: a
\* negative result stands for the underflow (a panic with overflow checks, the
\* wrapped value without).
update_maxused_by(c, b, reduction) ==
    LET now_used == Cardinality(c.map[b]) + 1 - c.cold[b]
        peak == Max(c.maxused[b], now_used)
    IN  IF c.countdown[b] > 0
        THEN [c EXCEPT !.maxused[b] = peak, !.countdown[b] = c.countdown[b] - 1]
        ELSE [c EXCEPT !.countdown[b] = maxused_cooldown[b],
                       !.maxused[b] =
                           IF peak > 0 /\ peak # now_used
                           THEN peak - ((peak \div reduction) + 1)
                           ELSE peak]

\* Bucket::update_maxused of a bucket that was never reconfigured
update_maxused(c, b) == update_maxused_by(c, b, maxused_reduction)

\* use_entry that forgets self.cold.fetch_sub(1)
use_entry_keeps_cold(c, k) ==
    LET b == bucket(k)
        c1 == IF is_linked(c, k)
              THEN update_maxused([c EXCEPT !.lru[b] = SeqWithout(c.lru[b], k)], b)
              ELSE c
    IN  [c1 EXCEPT !.ent[k].use_count = c1.ent[k].use_count + 1]

\* Bucket::use_entry, under the map mutex and the LRU mutex.
use_entry(c, k) ==
    LET b == bucket(k)
        c1 == IF is_linked(c, k)
              THEN update_maxused(
                       [c EXCEPT !.lru[b] = SeqWithout(c.lru[b], k),
                                 !.cold[b] = c.cold[b] - 1], b)
              ELSE c
    IN  [c1 EXCEPT !.ent[k].use_count = c1.ent[k].use_count + 1]

\* unuse_entry that never pushes the entry to the LRU list
unuse_entry_unlinked(c, k) ==
    [c EXCEPT !.ent[k].use_count = c.ent[k].use_count - 1]

\* unuse_entry that pushes the idle entry to the front of the LRU list
unuse_entry_front(c, k) ==
    LET b == bucket(k)
        c1 == [c EXCEPT !.ent[k].use_count = c.ent[k].use_count - 1]
    IN  IF c.ent[k].use_count = 1
        THEN [c1 EXCEPT !.cold[b] = c.cold[b] + 1, !.lru[b] = <<k>> \o c.lru[b]]
        ELSE c1

\* Bucket::unuse_entry, under the LRU mutex only.
unuse_entry(c, k) ==
    LET b == bucket(k)
        c1 == [c EXCEPT !.ent[k].use_count = c.ent[k].use_count - 1]
    IN  IF c.ent[k].use_count = 1
        THEN [c1 EXCEPT !.cold[b] = c.cold[b] + 1, !.lru[b] = Append(c.lru[b], k)]
        ELSE c1

\* Bucket::evict: pops up to n entries from the LRU front and removes them from
\* the map.  The result carries the cache and the number of evicted entries.
RECURSIVE bucket_evict(_, _, _)
bucket_evict(c, b, n) ==
    IF n = 0 THEN [c |-> c, evicted |-> 0]
    ELSE IF c.lru[b] = <<>> THEN [c |-> c, evicted |-> 0]
    ELSE LET k == Head(c.lru[b])
             c1 == [c EXCEPT !.lru[b] = Tail(c.lru[b]),
                             !.map[b] = c.map[b] \ {k},
                             !.ent[k] = NoEnt,
                             !.cold[b] = c.cold[b] - 1]
             r == bucket_evict(c1, b, n - 1)
         IN  [c |-> r.c, evicted |-> r.evicted + 1]

\* Bucket::maybe_evict.  `full` says whether the HashSet has used up its
\* capacity (len == capacity), which is the HashSet's own business.
maybe_evict(c, b, full) ==
    IF ~full THEN c
    ELSE IF c.cold[b] * 100 > cold_target_default * Cardinality(c.map[b])
         THEN bucket_evict(c, b, evict_batch).c
         ELSE c

\* ------------------------------------------------------- value RwLock
\* Some thread is waiting for the write lock of k with a method that waits.
WriterWaiting(k) ==
    \E t \in Threads :
        /\ pc[t] = "lock"
        /\ ctx[t].key = k
        /\ ctx[t].kind = "w"
        /\ ctx[t].method # "TryLock"

\* LockingMethod::read / LockingMethod::write: can the lock be taken now
CanLock(e, kind) ==
    IF kind = "r" THEN e.writer = 0
    ELSE e.writer = 0 /\ e.readers = 0

\* ... and can the method give up with LockUnavailable now
CanFail(k, e, kind, method, rec) ==
    /\ method # "Blocking"
    /\ IF kind = "r"
       THEN \/ e.writer # 0
            \/ ~rec /\ e.readers > 0 /\ WriterWaiting(k)
       ELSE e.writer # 0 \/ e.readers # 0

Locked(e, kind, t) ==
    IF kind = "r" THEN [e EXCEPT !.readers = e.readers + 1]
    ELSE [e EXCEPT !.writer = t]

Unlocked(e, kind) ==
    IF kind = "r" THEN [e EXCEPT !.readers = e.readers - 1]
    ELSE [e EXCEPT !.writer = 0]

\* ------------------------------------------------------------ threads
NoGuards == [k \in Keys |-> [r |-> 0, w |-> 0]]

RECURSIVE SumOver(_, _)
SumOver(f, S) ==
    IF S = {} THEN 0
    ELSE LET x == CHOOSE y \in S : TRUE
         IN  f[x].r + f[x].w + SumOver(f, S \ {x})

GuardCount(t) == SumOver(held[t], Keys)

\* t has a reference to the entry of k: an Entry*Guard, the guard field of one
\* that is being dropped, or the entry_ptr of a call
Refers(t, k) ==
    \/ held[t][k].r + held[t][k].w > 0
    \/ pc[t] \in {"lock", "ctor", "unlock"} /\ ctx[t].key = k

\* the references that dangle once the entries missing from c are freed
StaleAfter(c) ==
    stale \cup {tk \in Threads \X Keys :
                   /\ tk[2] \in map[bucket(tk[2])]
                   /\ tk[2] \notin c.map[bucket(tk[2])]
                   /\ Refers(tk[1], tk[2])}

Idle(t) == pc[t] = "idle"

Return(t, r) ==
    /\ pc' = [pc EXCEPT ![t] = "idle"]
    /\ ctx' = [ctx EXCEPT ![t] = NoCtx]
    /\ ret' = r

Goto(t, p, c) ==
    /\ pc' = [pc EXCEPT ![t] = p]
    /\ ctx' = [ctx EXCEPT ![t] = c]
    /\ ret' = NoRet

\* query_entry that stores an empty entry on a miss before it fails
query_entry_inserts(t, op, kind, k, m, rec) ==
    /\ Idle(t)
    /\ IF k \in map[bucket(k)]
       THEN /\ ent[k].use_count < MaxUse
            /\ GuardCount(t) < MaxGuards
            /\ Store(use_entry(Cache, k))
            /\ Goto(t, "lock", [NoCtx EXCEPT !.key = k, !.kind = kind,
                                             !.method = m, !.rec = rec])
       ELSE /\ Return(t, Res("NoEntry", 0))
            /\ Store([Cache EXCEPT !.map[bucket(k)] = map[bucket(k)] \cup {k},
                                   !.ent[k] = Entry_new])
    /\ UNCHANGED <<N, maxused_cooldown, lru_disabled, held, stale>>

\* CacheDb::query_entry as called by get (kind "r") and get_mut (kind "w"):
\* the whole function runs under the map mutex.
query_entry(t, op, kind, k, m, rec) ==
    /\ Idle(t)
    /\ IF k \in map[bucket(k)]
       THEN /\ ent[k].use_count < MaxUse
            /\ GuardCount(t) < MaxGuards
            /\ Store(use_entry(Cache, k))
            /\ Goto(t, "lock", [NoCtx EXCEPT !.key = k, !.kind = kind,
                                             !.method = m, !.rec = rec])
       ELSE /\ Return(t, Res("NoEntry", 0))
            /\ UNCHANGED shared
    /\ UNCHANGED <<N, maxused_cooldown, lru_disabled, held, stale>>

get(t, k, m, rec) == query_entry(t, "get", "r", k, m, rec)

\* get(Recursive(m), key) by a thread that holds a read guard on the key
\* already: the same lookup, with room for the further guard.
get_again(t, k, m) ==
    /\ Idle(t)
    /\ held[t][k].r > 0
    /\ k \in map[bucket(k)]
    /\ GuardCount(t) < MaxRecGuards
    /\ ent[k].use_count < MaxRecUse
    /\ Store(use_entry(Cache, k))
    /\ Goto(t, "lock", [NoCtx EXCEPT !.key = k, !.kind = "r", !.method = m, !.rec = TRUE])
    /\ UNCHANGED <<N, maxused_cooldown, lru_disabled, held, stale>>

get_mut(t, k, m, rec) == query_entry(t, "get_mut", "w", k, m, rec)

\* CacheDb::query_or_insert_entry as called by insert, get_or_insert and
\* get_or_insert_mut, and on a miss the Err arm of the caller up to
\* drop(map_lock): the eviction check and the write lock of the new entry.  All
\* of it runs under the map mutex.
query_or_insert_entry(t, op, kind, k, m, rec) ==
    /\ Idle(t)
    /\ IF k \in map[bucket(k)]
       THEN /\ ent[k].use_count < MaxUse
            /\ Store(use_entry(Cache, k))
            /\ IF op = "insert"
               THEN Return(t, Res("Ok_false", 0))
               ELSE /\ GuardCount(t) < MaxGuards
                    /\ Goto(t, "lock", [NoCtx EXCEPT !.key = k, !.kind = kind,
                                                     !.method = m, !.rec = rec])
            /\ UNCHANGED stale
       ELSE /\ op # "insert" => GuardCount(t) < MaxGuards
            /\ \E full \in BOOLEAN :
                 LET c0 == [Cache EXCEPT !.map[bucket(k)] = map[bucket(k)] \cup {k},
                                         !.ent[k] = Entry_new]
                     c == IF lru_disabled = 0 THEN maybe_evict(c0, bucket(k), full) ELSE c0
                 IN  /\ CanLock(c.ent[k], "w")
                     /\ Store([c EXCEPT !.ent[k] = Locked(c.ent[k], "w", t)])
                     /\ stale' = StaleAfter(c)
            /\ Goto(t, "ctor", [NoCtx EXCEPT !.op = op, !.key = k])
    /\ UNCHANGED <<N, maxused_cooldown, lru_disabled, held>>

insert(t, k) == query_or_insert_entry(t, "insert", "w", k, "Blocking", FALSE)

get_or_insert(t, k, m, rec) == query_or_insert_entry(t, "get_or_insert", "r", k, m, rec)

get_or_insert_mut(t, k, m, rec) ==
    query_or_insert_entry(t, "get_or_insert_mut", "w", k, m, rec)

GuardTag(kind) == IF kind = "r" THEN "ReadGuard" ELSE "WriteGuard"

Forget(t, k) == stale' = stale \ {<<t, k>>}

\* a call that invokes its constructor a second time
construct_twice(t) ==
    /\ pc[t] = "ctor"
    /\ LET k == ctx[t].key
           op == ctx[t].op
       IN  \E r \in CtorValues \cup {None} :
             LET ran == [ent[k] EXCEPT !.ctors = ent[k].ctors + 2]
                 built == [ran EXCEPT !.value = r]
             IN  /\ UNCHANGED <<map, lru_list, cold, maxused, maxused_countdown, stale>>
                 /\ IF r = None
                    THEN /\ ent' = [ent EXCEPT ![k] = Unlocked(ran, "w")]
                         /\ Return(t, Res("CtorErr", 0))
                         /\ UNCHANGED held
                    ELSE IF op = "insert"
                    THEN /\ ent' = [ent EXCEPT ![k] = Unlocked(built, "w")]
                         /\ Return(t, Res("Ok_true", 0))
                         /\ UNCHANGED held
                    ELSE IF op = "get_or_insert"
                    THEN /\ ent' = [ent EXCEPT ![k] =
                                       Locked(Unlocked(built, "w"), "r", t)]
                         /\ held' = [held EXCEPT ![t][k].r = @ + 1]
                         /\ Return(t, Res("ReadGuard", 0))
                    ELSE /\ ent' = [ent EXCEPT ![k] = built]
                         /\ held' = [held EXCEPT ![t][k].w = @ + 1]
                         /\ Return(t, Res("WriteGuard", 0))
    /\ UNCHANGED <<N, maxused_cooldown, lru_disabled>>

\* The rest of the Err arm: *wguard = Some(ctor(key)?) and the return.  A
\* constructor error leaves through `?`, which only drops wguard.
construct_finish(t) ==
    /\ pc[t] = "ctor"
    /\ LET k == ctx[t].key
           op == ctx[t].op
       IN  \E r \in CtorValues \cup {None} :
             LET ran == [ent[k] EXCEPT !.ctors = ent[k].ctors + 1]
                 built == [ran EXCEPT !.value = r]
             IN  /\ UNCHANGED <<map, lru_list, cold, maxused, maxused_countdown, stale>>
                 /\ IF r = None
                    THEN /\ ent' = [ent EXCEPT ![k] = Unlocked(ran, "w")]
                         /\ Return(t, Res("CtorErr", 0))
                         /\ UNCHANGED held
                    ELSE IF op = "insert"
                    THEN /\ ent' = [ent EXCEPT ![k] = Unlocked(built, "w")]
                         /\ Return(t, Res("Ok_true", 0))
                         /\ UNCHANGED held
                    ELSE IF op = "get_or_insert"
                    THEN /\ ent' = [ent EXCEPT ![k] =
                                       Locked(Unlocked(built, "w"), "r", t)]
                         /\ held' = [held EXCEPT ![t][k].r = @ + 1]
                         /\ Return(t, Res("ReadGuard", 0))
                    ELSE /\ ent' = [ent EXCEPT ![k] = built]
                         /\ held' = [held EXCEPT ![t][k].w = @ + 1]
                         /\ Return(t, Res("WriteGuard", 0))
    /\ UNCHANGED <<N, maxused_cooldown, lru_disabled>>

\* The value lock taken after a hit: LockingMethod::read / write, and the
\* construction of the guard.  A failed lock leaves through `?` before any
\* guard exists.
lock_value(t) ==
    /\ pc[t] = "lock"
    /\ LET k == ctx[t].key
           kind == ctx[t].kind
       IN  /\ UNCHANGED <<map, lru_list, cold, maxused, maxused_countdown, stale>>
           /\ \/ /\ CanLock(ent[k], kind)
                 /\ ent' = [ent EXCEPT ![k] = Locked(ent[k], kind, t)]
                 /\ held' = [held EXCEPT ![t][k][kind] = @ + 1]
                 /\ Return(t, Res(GuardTag(kind), 0))
              \/ /\ CanFail(k, ent[k], kind, ctx[t].method, ctx[t].rec)
                 /\ Return(t, Res("LockUnavailable", 0))
                 /\ UNCHANGED <<ent, held>>
    /\ UNCHANGED <<N, maxused_cooldown, lru_disabled>>

\* a drop that rolls back what was written through the write guard
drop_guard_rolls_back(t, k, kind) ==
    /\ Idle(t)
    /\ held[t][k][kind] > 0
    /\ held' = [held EXCEPT ![t][k][kind] = @ - 1]
    /\ LET c == unuse_entry(Cache, k)
       IN  Store([c EXCEPT !.ent[k].value =
                      IF kind = "w" /\ @ # None THEN MaxCtorValue ELSE @])
    /\ Goto(t, "unlock", [NoCtx EXCEPT !.key = k, !.kind = kind])
    /\ UNCHANGED stale
    /\ UNCHANGED <<N, maxused_cooldown, lru_disabled>>

\* Drop for EntryReadGuard / EntryWriteGuard: the body, bucket.unuse_entry.
drop_guard(t, k, kind) ==
    /\ Idle(t)
    /\ held[t][k][kind] > 0
    /\ held' = [held EXCEPT ![t][k][kind] = @ - 1]
    /\ Store(unuse_entry(Cache, k))
    /\ Goto(t, "unlock", [NoCtx EXCEPT !.key = k, !.kind = kind])
    /\ UNCHANGED stale
    /\ UNCHANGED <<N, maxused_cooldown, lru_disabled>>

\* ... and then the guard field is dropped, which unlocks the RwLock.  When the
\* entry was freed in between, the unlock writes to freed memory: either nothing
\* of the cache is touched, or the memory is in use again by the new entry of
\* the same key, whose lock is released.
release_guard(t) ==
    /\ pc[t] = "unlock"
    /\ LET k == ctx[t].key
           kind == ctx[t].kind
       IN  /\ IF <<t, k>> \in stale
              THEN \/ UNCHANGED ent
                   \/ /\ k \in map[bucket(k)]
                      /\ IF kind = "r" THEN ent[k].readers > 0 ELSE ent[k].writer # 0
                      /\ ent' = [ent EXCEPT ![k] = Unlocked(ent[k], kind)]
              ELSE ent' = [ent EXCEPT ![k] = Unlocked(ent[k], kind)]
           /\ Forget(t, k)
           /\ pc' = [pc EXCEPT ![t] = "idle"]
           /\ ctx' = [ctx EXCEPT ![t] = NoCtx]
           /\ ret' = NoRet
    /\ UNCHANGED <<map, lru_list, cold, maxused, maxused_countdown,
                   N, maxused_cooldown, lru_disabled, held>>

\* DerefMut for EntryWriteGuard: the holder stores a value.
deref_mut(t, k, v) ==
    /\ Idle(t)
    /\ held[t][k].w > 0
    /\ ent[k].value # None
    /\ ent[k].value # v
    /\ ent' = [ent EXCEPT ![k].value = v]
    /\ ret' = NoRet
    /\ UNCHANGED <<N, map, lru_list, cold, maxused, maxused_countdown, maxused_cooldown,
                   lru_disabled, pc, ctx, held, stale>>

\* EntryReadGuard::expire / EntryWriteGuard::expire on a guard that t holds:
\* stores the flag of the entry, nothing else.
expire(t, k) ==
    /\ Idle(t)
    /\ held[t][k].r + held[t][k].w > 0
    /\ ~ent[k].expire
    /\ ent' = [ent EXCEPT ![k].expire = TRUE]
    /\ ret' = NoRet
    /\ UNCHANGED <<N, map, lru_list, cold, maxused, maxused_countdown, maxused_cooldown,
                   lru_disabled, pc, ctx, held, stale>>

\* a round that adds up the evicted entries instead of subtracting them
evict_round_counts(t, b, number, acc) ==
    LET r == bucket_evict(Cache, b, number \div N)
        sum == (IF b = 0 THEN 0 ELSE acc) + r.evicted
        gone == ctx[t].gone + Cardinality(map[b] \ r.c.map[b])
    IN  /\ Store(r.c)
        /\ stale' = StaleAfter(r.c)
        /\ IF b = N - 1
           THEN Return(t, Res("evicted", sum))
           ELSE Goto(t, "evict", [NoCtx EXCEPT !.n = number, !.i = b + 1,
                                              !.acc = sum, !.gone = gone])

\* a round that asks the bucket for number entries instead of number / N
evict_round_undivided(t, b, number, acc) ==
    LET r == bucket_evict(Cache, b, number)
        left == acc - r.evicted
        gone == ctx[t].gone + Cardinality(map[b] \ r.c.map[b])
    IN  /\ Store(r.c)
        /\ stale' = StaleAfter(r.c)
        /\ IF b = N - 1
           THEN Return(t, Res("evicted", left))
           ELSE Goto(t, "evict", [NoCtx EXCEPT !.n = number, !.i = b + 1,
                                              !.acc = left, !.gone = gone])

\* One round of the loop of CacheDb::evict, on bucket b:
\* evicted -= bucket.evict(number / N, &mut bucket.lock_map())
evict_round(t, b, number, acc) ==
    LET r == bucket_evict(Cache, b, number \div N)
        left == acc - r.evicted
        gone == ctx[t].gone + Cardinality(map[b] \ r.c.map[b])
    IN  /\ Store(r.c)
        /\ stale' = StaleAfter(r.c)
        /\ IF b = N - 1
           THEN Return(t, Res("evicted", left))
           ELSE Goto(t, "evict", [NoCtx EXCEPT !.n = number, !.i = b + 1,
                                              !.acc = left, !.gone = gone])

\* CacheDb::evict: the check of lru_disabled and the first round of the loop.
\* Nothing else writes lru_disabled between the two in a specification without
\* disable_lru_eviction, so they are one step.
CacheDb_evict(t, number) ==
    /\ Idle(t)
    /\ t \in Evictors
    /\ IF lru_disabled = 0
       THEN evict_round(t, 0, number, number)
       ELSE /\ Return(t, Res("evicted", 0))
            /\ UNCHANGED <<shared, stale>>
    /\ UNCHANGED <<N, maxused_cooldown, lru_disabled, held>>

\* ... and the later rounds
evict_bucket(t) ==
    /\ pc[t] = "evict"
    /\ evict_round(t, ctx[t].i, ctx[t].n, ctx[t].acc)
    /\ UNCHANGED <<N, maxused_cooldown, lru_disabled, held>>

\* CacheDb::disable_lru_eviction / enable_lru_eviction: fetch_add(1) and
\* fetch_sub(1) on the AtomicU32, which wrap.  The model keeps of a u32 value the
\* integer congruent to it modulo 2^32 that is nearest to 0: -1 stands for
\* 2^32 - 1, so that the comparison with 0 of the code is exact.
disable_lru_eviction(t) ==
    /\ Idle(t)
    /\ lru_disabled < MaxDisabled
    /\ lru_disabled' = lru_disabled + 1
    /\ ret' = NoRet
    /\ UNCHANGED <<N, shared, maxused_cooldown, pc, ctx, held, stale>>

enable_lru_eviction(t) ==
    /\ Idle(t)
    /\ lru_disabled > 0 - MaxDisabled
    /\ lru_disabled' = lru_disabled - 1
    /\ ret' = NoRet
    /\ UNCHANGED <<N, shared, maxused_cooldown, pc, ctx, held, stale>>

\* ---------------------------------- the same calls next to the switches
\* a contains_key that looks into the first bucket whatever the key
contains_key_first(t, k) ==
    /\ Idle(t)
    /\ Return(t, Res(IF k \in map[0] THEN "true" ELSE "false", 0))
    /\ UNCHANGED <<N, shared, stale, maxused_cooldown, lru_disabled, held>>

\* CacheDb::contains_key: looks the key up in the map of its bucket
contains_key(t, k) ==
    /\ Idle(t)
    /\ Return(t, Res(IF k \in map[bucket(k)] THEN "true" ELSE "false", 0))
    /\ UNCHANGED <<N, shared, stale, maxused_cooldown, lru_disabled, held>>

\* a map mutex that is kept until the constructor is through
MapHeld_ctor(b) ==
    \E t \in Threads : pc[t] \in {"miss", "ctor"} /\ bucket(ctx[t].key) = b

\* lru_disabled is read without a lock, so where it changes the load and what
\* depends on it are separate steps.  Between the two the thread keeps the map
\* mutex of the bucket.
MapHeld(b) ==
    \E t \in Threads : pc[t] = "miss" /\ bucket(ctx[t].key) = b

\* Bucket::lock_map followed by a lookup with method m: it waits while another
\* thread is inside the map mutex of the bucket.
lookup(t, kind, k, m) ==
    /\ ~MapHeld(bucket(k))
    /\ IF kind = "r" THEN get(t, k, m, FALSE) ELSE get_mut(t, k, m, FALSE)

\* ... and the hit of insert, get_or_insert and get_or_insert_mut
lookup_hit(t, op, k, m) ==
    /\ ~MapHeld(bucket(k))
    /\ k \in map[bucket(k)]
    /\ query_or_insert_entry(t, op, IF op = "get_or_insert" THEN "r" ELSE "w", k, m, FALSE)

\* query_or_insert_entry on a miss, up to self.lru_disabled.load(..) == 0
insert_entry(t, op, k) ==
    /\ Idle(t)
    /\ k \notin map[bucket(k)]
    /\ ~MapHeld(bucket(k))
    /\ op # "insert" => GuardCount(t) < MaxGuards
    /\ Store([Cache EXCEPT !.map[bucket(k)] = map[bucket(k)] \cup {k},
                           !.ent[k] = Entry_new])
    /\ Goto(t, "miss", [NoCtx EXCEPT !.op = op, !.key = k, !.lru = (lru_disabled = 0)])
    /\ UNCHANGED <<N, maxused_cooldown, lru_disabled, held, stale>>

\* a miss that runs maybe_evict whatever it read from lru_disabled
evict_and_lock_always(t) ==
    /\ pc[t] = "miss"
    /\ LET k == ctx[t].key
       IN  \E full \in BOOLEAN :
             LET c == maybe_evict(Cache, bucket(k), full)
             IN  /\ CanLock(c.ent[k], "w")
                 /\ Store([c EXCEPT !.ent[k] = Locked(c.ent[k], "w", t)])
                 /\ stale' = StaleAfter(c)
                 /\ Goto(t, "ctor", [NoCtx EXCEPT !.op = ctx[t].op, !.key = k])
    /\ UNCHANGED <<N, maxused_cooldown, lru_disabled, held>>

\* ... then bucket.maybe_evict if it read 0, the write lock of the new entry and
\* drop(map_lock).
evict_and_lock(t) ==
    /\ pc[t] = "miss"
    /\ LET k == ctx[t].key
       IN  \E full \in BOOLEAN :
             LET c == IF ctx[t].lru THEN maybe_evict(Cache, bucket(k), full) ELSE Cache
             IN  /\ CanLock(c.ent[k], "w")
                 /\ Store([c EXCEPT !.ent[k] = Locked(c.ent[k], "w", t)])
                 /\ stale' = StaleAfter(c)
                 /\ Goto(t, "ctor", [NoCtx EXCEPT !.op = ctx[t].op, !.key = k])
    /\ UNCHANGED <<N, maxused_cooldown, lru_disabled, held>>

\* an evict that never looks at lru_disabled
evict_begin_unchecked(t, number) ==
    /\ Idle(t)
    /\ t \in Evictors
    /\ Goto(t, "evict", [NoCtx EXCEPT !.n = number, !.acc = number])
    /\ UNCHANGED <<N, shared, stale, maxused_cooldown, lru_disabled, held>>

\* CacheDb::evict up to the loop: the load of lru_disabled and evicted = number
evict_begin(t, number) ==
    /\ Idle(t)
    /\ t \in Evictors
    /\ IF lru_disabled = 0
       THEN Goto(t, "evict", [NoCtx EXCEPT !.n = number, !.acc = number])
       ELSE Return(t, Res("evicted", 0))
    /\ UNCHANGED <<N, shared, stale, maxused_cooldown, lru_disabled, held>>

\* ------------------------------------------------------- specification
\* CacheDb::<K, V, n>::new().  Bucket::new starts maxused_cooldown at 1000; it
\* is a tunable of the bucket, and the model starts it at TargetCooldown so that
\* the decay step of update_maxused is reached within a few lookups.
InitN(n) ==
    /\ N = n
    /\ map = [b \in 0..(n - 1) |-> {}]
    /\ ent = [k \in Keys |-> NoEnt]
    /\ lru_list = [b \in 0..(n - 1) |-> <<>>]
    /\ cold = [b \in 0..(n - 1) |-> 0]
    /\ maxused = [b \in 0..(n - 1) |-> 0]
    /\ maxused_countdown = [b \in 0..(n - 1) |-> 0]
    /\ maxused_cooldown = [b \in 0..(n - 1) |-> TargetCooldown]
    /\ lru_disabled = 0
    /\ pc = [t \in Threads |-> "idle"]
    /\ ctx = [t \in Threads |-> NoCtx]
    /\ held = [t \in Threads |-> NoGuards]
    /\ stale = {}
    /\ ret = NoRet

\* the cache operations of the threads TS on the keys KS, with the locking
\* methods MS, wrapped in Recursive(..) or not as RS says
Calls(TS, KS, MS, RS) ==
    \E t \in TS :
        \/ \E k \in KS, m \in MS, rec \in RS : get(t, k, m, rec)
        \/ \E k \in KS, m \in MS : get_mut(t, k, m, FALSE)
        \/ \E k \in KS : insert(t, k)
        \/ \E k \in KS, m \in MS, rec \in RS : get_or_insert(t, k, m, rec)
        \/ \E k \in KS, m \in MS : get_or_insert_mut(t, k, m, FALSE)
        \/ construct_finish(t)
        \/ lock_value(t)
        \/ \E k \in KS, kind \in {"r", "w"} : drop_guard(t, k, kind)
        \/ release_guard(t)
        \/ \E k \in KS, v \in Values : deref_mut(t, k, v)
        \/ \E n \in 0..MaxEvict : CacheDb_evict(t, n)

\* CacheDb::evict() going on to the next bucket
Rounds ==
    \E t \in Evictors : evict_bucket(t)

\* the threads that switch the LRU eviction
Switchers == Threads \ Evictors

\* switching the LRU eviction off and on, in pairs
Switches ==
    \E t \in Switchers :
        \/ disable_lru_eviction(t)
        \/ lru_disabled > 0 /\ enable_lru_eviction(t)

\* enable_lru_eviction without a disable_lru_eviction before it
Unpaired ==
    \E t \in Switchers : lru_disabled <= 0 /\ enable_lru_eviction(t)

\* the keys the concurrent threads work on
HotKeys == {0, 1}

\* two threads working concurrently on one bucket
Init == InitN(1)

Next == Calls(Threads, HotKeys, Methods, {FALSE})

Spec == Init /\ [][Next]_vars

\* one thread working on all keys of a cache of one or two buckets
InitSeq == \E n \in 1..MaxBuckets : InitN(n)

NextSeq == Calls(Evictors, Keys, Methods, BOOLEAN) \/ Rounds

SpecSeq == InitSeq /\ [][NextSeq]_vars

\* one thread fills and evicts one bucket while another one switches the LRU
\* eviction
CallsSw ==
    \E t \in Evictors :
        \/ \E k \in Keys : ~MapHeld(bucket(k)) /\ k \in map[bucket(k)] /\ insert(t, k)
        \/ \E k \in Keys :
               /\ ~MapHeld(bucket(k)) /\ k \in map[bucket(k)]
               /\ get_or_insert(t, k, "Blocking", FALSE)
        \/ \E k \in Keys, op \in {"insert", "get_or_insert"} : insert_entry(t, op, k)
        \/ evict_and_lock(t)
        \/ construct_finish(t)
        \/ lock_value(t)
        \/ \E k \in Keys : drop_guard(t, k, "r")
        \/ release_guard(t)
        \/ \E n \in 0..MaxEvict : evict_begin(t, n)
        \/ ~MapHeld(ctx[t].i) /\ evict_bucket(t)

NextSw == CallsSw \/ Switches \/ Unpaired

SpecSw == Init /\ [][NextSw]_vars

\* two threads on one bucket, the critical sections of the map mutex as they
\* are in the code: a miss keeps the mutex from the insertion to drop(map_lock)
ShardMethods == {"Blocking", "TryLock"}

Ops == {"insert", "get_or_insert", "get_or_insert_mut"}

CallsShard ==
    \E t \in Threads :
        \/ \E k \in HotKeys, m \in ShardMethods, kind \in {"r", "w"} : lookup(t, kind, k, m)
        \/ \E k \in HotKeys, m \in ShardMethods, op \in Ops : lookup_hit(t, op, k, m)
        \/ \E k \in HotKeys, op \in Ops : insert_entry(t, op, k)
        \/ evict_and_lock(t)
        \/ construct_finish(t)
        \/ lock_value(t)
        \/ \E k \in HotKeys, kind \in {"r", "w"} : drop_guard(t, k, kind)
        \/ release_guard(t)

SpecShard == Init /\ [][CallsShard]_vars

\* one thread that marks entries for expiration through its guards
NextExpire ==
    \/ Calls(Evictors, HotKeys, {"Blocking"}, {FALSE})
    \/ \E t \in Evictors, k \in HotKeys : expire(t, k)

SpecExpire == Init /\ [][NextExpire]_vars

\* two threads that wait for their locks (Blocking), under a fair scheduler:
\* a thread that can go on does so, a lock that keeps becoming free is given to
\* the thread that waits for it, and every guard is dropped in the end
LiveKeys == {0}

NextLive == Calls(Threads, LiveKeys, {"Blocking"}, {FALSE})

Fairness ==
    \A t \in Threads :
        /\ SF_vars(lock_value(t))
        /\ WF_vars(construct_finish(t))
        /\ WF_vars(release_guard(t))
        /\ \A k \in LiveKeys, kind \in {"r", "w"} : SF_vars(drop_guard(t, k, kind))

SpecLive == Init /\ [][NextLive]_vars /\ Fairness

\* two threads on one key, one of which takes read guards recursively
NextRec ==
    \/ Calls(Threads, LiveKeys, Methods, {FALSE})
    \/ \E t \in Switchers, k \in LiveKeys, m \in Methods : get_again(t, k, m)

SpecRec == Init /\ [][NextRec]_vars

\* the same without CacheDb::evict
NextRecKept ==
    \/ \E t \in Threads :
           \/ \E k \in LiveKeys, m \in Methods : get(t, k, m, FALSE)
           \/ \E k \in LiveKeys, m \in Methods : get_mut(t, k, m, FALSE)
           \/ \E k \in LiveKeys, m \in Methods : get_or_insert(t, k, m, FALSE)
           \/ construct_finish(t)
           \/ lock_value(t)
           \/ \E k \in LiveKeys, kind \in {"r", "w"} : drop_guard(t, k, kind)
           \/ release_guard(t)
    \/ \E t \in Switchers, k \in LiveKeys, m \in Methods : get_again(t, k, m)

SpecRecKept == Init /\ [][NextRecKept]_vars

\* the values maxused_reduction is given
Reductions == {1, 2, maxused_reduction}

\* the keys of S in ascending order
RECURSIVE Ascending(_)
Ascending(S) ==
    IF S = {} THEN <<>>
    ELSE LET x == CHOOSE y \in S : \A z \in S : y <= z
         IN  <<x>> \o Ascending(S \ {x})

\* One bucket at any time of its life: some entries stored, some of them idle
\* and linked, the others in use, any peak recorded so far and the countdown
\* anywhere below the cooldown the bucket is configured with.
InitPeak ==
    \E S \in SUBSET Keys, mu \in 0..MaxPeak, cdn \in 0..MaxCooldown :
      \E L \in SUBSET S, cd \in 0..cdn :
        /\ N = 1
        /\ map = [b \in {0} |-> S]
        /\ ent = [k \in Keys |->
                    IF k \in L THEN [NoEnt EXCEPT !.value = 1, !.ctors = 1]
                    ELSE IF k \in S THEN [Entry_new EXCEPT !.value = 1, !.ctors = 1]
                    ELSE NoEnt]
        /\ lru_list = [b \in {0} |-> Ascending(L)]
        /\ cold = [b \in {0} |-> Cardinality(L)]
        /\ maxused = [b \in {0} |-> mu]
        /\ maxused_countdown = [b \in {0} |-> cd]
        /\ maxused_cooldown = [b \in {0} |-> cdn]
        /\ lru_disabled = 0
        /\ pc = [t \in Threads |-> "idle"]
        /\ ctx = [t \in Threads |-> NoCtx]
        /\ held = [t \in Threads |-> NoGuards]
        /\ stale = {}
        /\ ret = NoRet

\* a call of Bucket::update_maxused under the map mutex; it returns the
\* adjusted maxused
update_maxused_call(b, reduction) ==
    /\ Store(update_maxused_by(Cache, b, reduction))
    /\ ret' = Res("maxused", maxused'[b])
    /\ UNCHANGED <<N, maxused_cooldown, lru_disabled, pc, ctx, held, stale>>

NextPeak == \E b \in Buckets, reduction \in Reductions : update_maxused_call(b, reduction)

SpecPeak == InitPeak /\ [][NextPeak]_vars

\* threads that only call get_or_insert and get_or_insert_mut and drop their
\* guards, on three keys of one bucket
NextCtors ==
    \E t \in Threads :
        \/ \E k \in Keys : get_or_insert(t, k, "Blocking", FALSE)
        \/ \E k \in Keys : get_or_insert_mut(t, k, "Blocking", FALSE)
        \/ construct_finish(t)
        \/ lock_value(t)
        \/ \E k \in Keys, kind \in {"r", "w"} : drop_guard(t, k, kind)
        \/ release_guard(t)

\* every thread goes on with the call it is in
FairnessCtors ==
    \A t \in Threads :
        /\ WF_vars(lock_value(t))
        /\ WF_vars(construct_finish(t))
        /\ WF_vars(release_guard(t))

SpecCtors == Init /\ [][NextCtors]_vars /\ FairnessCtors

\* the calls that look up or insert, by one thread on a cache of one or of two
\* buckets, another one switching the LRU eviction off and on
NextShards ==
    \/ \E t \in Evictors :
          \/ \E k \in Keys : get(t, k, "Blocking", FALSE)
          \/ \E k \in Keys : get_mut(t, k, "Blocking", FALSE)
          \/ \E k \in Keys : insert(t, k)
          \/ \E k \in Keys : get_or_insert(t, k, "Blocking", FALSE)
          \/ \E k \in Keys : get_or_insert_mut(t, k, "Blocking", FALSE)
          \/ \E k \in Keys : contains_key(t, k)
          \/ construct_finish(t)
          \/ lock_value(t)
          \/ \E k \in Keys, kind \in {"r", "w"} : drop_guard(t, k, kind)
          \/ release_guard(t)
          \/ \E k \in Keys, v \in Values : deref_mut(t, k, v)
    \/ Switches

SpecShards == InitSeq /\ [][NextShards]_vars

\* ------------------------------------------------------------- claims
InMap(k) == k \in map[bucket(k)]

Guards(t, k) == held[t][k].r + held[t][k].w

\* some thread is between the insertion of k's entry and the end of its constructor
Constructing(k) == \E t \in Threads : pc[t] = "ctor" /\ ctx[t].key = k

\* the step ends a call of t that was past its lookup, with result tag
Returns(t, from, tag) == pc[t] = from /\ pc'[t] = "idle" /\ ret'.tag = tag

\* C1: between the critical sections of the LRU mutex, an entry stored in the
\* map is linked into the LRU list if and only if its use_count is 0.
C1_LinkedIffIdle ==
    \A k \in Keys : InMap(k) => (is_linked(Cache, k) <=> ent[k].use_count = 0)

\* an idle, linked, constructed entry next to one that a guard keeps in use
C1_Witness ==
    \E k1 \in Keys, k2 \in Keys, t \in Threads :
        /\ InMap(k1) /\ ent[k1].use_count = 0 /\ is_linked(Cache, k1)
        /\ ent[k1].value # None
        /\ InMap(k2) /\ ent[k2].use_count > 0 /\ ~is_linked(Cache, k2)
        /\ Guards(t, k2) > 0

\* C2: no entry is removed from a map while its use_count is above 0, and no
\* guard, up to the end of its drop, refers to an entry that is no longer in
\* the map.
C2_NoGuardOnRemovedEntry ==
    /\ [][\A k \in Keys : InMap(k) /\ ~InMap(k)' => ent[k].use_count = 0]_vars
    /\ [](\A t \in Threads, k \in Keys :
             Refers(t, k) => InMap(k) /\ <<t, k>> \notin stale)

\* C3: when the value lock is not available after a hit, the call that returns
\* LockUnavailable has undone the increment of use_count of its lookup, and an
\* entry left with use_count 0 is linked.
C3_LockFailureUnuses ==
    [][\A t \in Threads :
          Returns(t, "lock", "LockUnavailable") =>
              LET k == ctx[t].key
              IN  /\ ent'[k].use_count = ent[k].use_count - 1
                  /\ ent'[k].use_count = 0 => InSeq(lru_list'[bucket(k)], k)]_vars

\* C4: when the constructor fails, the entry that was inserted with an empty
\* value slot is gone from the map by the time the error is returned.
C4_CtorErrorRemovesEntry ==
    [][\A t \in Threads :
          Returns(t, "ctor", "CtorErr") => ~InMap(ctx[t].key)']_vars

\* C5: the value slot of an entry is populated whenever a thread holds a read
\* or write guard of it.
C5_GuardsSeeValue ==
    \A t \in Threads, k \in Keys : Guards(t, k) > 0 => ent[k].value # None

\* C6: for every entry at most one constructor is invoked, and a caller that
\* gets its guard on the hit path gets it on the value that constructor built.
C6_OneConstructor ==
    /\ [](\A k \in Keys : ent[k].ctors <= 1)
    /\ [][\A t \in Threads :
             Returns(t, "lock", "ReadGuard") \/ Returns(t, "lock", "WriteGuard") =>
                 LET k == ctx[t].key
                 IN  ent'[k].ctors = 1 /\ ent'[k].value # None]_vars

\* C7: in every bucket the cold counter equals the number of entries that are
\* linked in the LRU list of the bucket.
C7_ColdCountsLinked ==
    \A b \in Buckets :
        cold[b] = Cardinality({k \in map[b] : InSeq(lru_list[b], k)})

\* two buckets, after an eviction that took the only cold entry of one bucket
\* and one of the two cold entries of the other
C7_Witness ==
    /\ N = 2
    /\ ret = Res("evicted", 0)
    /\ \E b \in Buckets : cold[b] = 1 /\ Cardinality(map[b]) = 1
    /\ \E b \in Buckets : cold[b] = 0 /\ map[b] = {}

\* C8: insert on a key without an entry inserts one and goes on to its
\* constructor; on a key with an entry it returns Ok(false), runs no
\* constructor and leaves the value alone, and that entry has a constructed
\* value or is under construction, so that a following get returns it.
C8_InsertReportsPresence ==
    [][\A t \in Threads, k \in Keys :
          insert(t, k) =>
              IF InMap(k)
              THEN /\ ret'.tag = "Ok_false"
                   /\ ent'[k].value = ent[k].value
                   /\ ent'[k].ctors = ent[k].ctors
                   /\ ent[k].value # None \/ Constructing(k)
              ELSE /\ pc'[t] = "ctor"
                   /\ InMap(k)']_vars

\* C9: get and get_mut on a key without an entry return NoEntry, with every
\* locking method, and change nothing of the cache.
C9_MissReturnsNoEntry ==
    [][\A t \in Threads, k \in Keys :
          /\ Idle(t)
          /\ ~InMap(k)
          /\ \E m \in Methods, rec \in BOOLEAN :
                 get(t, k, m, rec) \/ get_mut(t, k, m, rec)
          => /\ ret'.tag = "NoEntry"
             /\ UNCHANGED <<shared, held, stale, lru_disabled>>]_vars

\* a miss on a cache that holds a cold entry
C9_Witness ==
    /\ ret.tag = "NoEntry"
    /\ \E k \in Keys : InMap(k) /\ is_linked(Cache, k)
    /\ \E k \in Keys : ~InMap(k)

\* C10: the value of an entry that stays in the map changes only when the
\* holder of a write guard stores through it; so what was written is what a
\* get finds once the write guard is dropped.
C10_WrittenValueStays ==
    [][\A k \in Keys :
          InMap(k)' /\ ent[k].value # None /\ ent'[k].value # ent[k].value =>
              \E t \in Threads :
                  /\ held[t][k].w > 0
                  /\ UNCHANGED <<held, pc, map, lru_list, cold>>]_vars

\* a read guard on a value that was written through a write guard
C10_Witness ==
    \E t \in Threads, k \in Keys :
        /\ held[t][k].r > 0
        /\ ent[k].writer = 0
        /\ ent[k].value > MaxCtorValue
        /\ ret.tag = "ReadGuard"

\* the entries the step takes out of the maps
Removed == {k \in Keys : InMap(k) /\ ~InMap(k)'}

\* the step is the last round of a CacheDb::evict(n) of t
EvictReturns(t, n) ==
    /\ pc'[t] = "idle"
    /\ \/ CacheDb_evict(t, n)
       \/ evict_bucket(t) /\ ctx[t].n = n

\* C11: CacheDb::evict returns the number of entries it removed from all the
\* buckets together; on an empty cache it returns 0.
C11_EvictReturnsCount ==
    [][\A t \in Evictors, n \in 0..MaxEvict :
          EvictReturns(t, n) =>
              ret' = Res("evicted", ctx[t].gone + Cardinality(Removed))]_vars

RoundOf(t, b, n) ==
    \/ b = 0 /\ CacheDb_evict(t, n) /\ lru_disabled = 0
    \/ evict_bucket(t) /\ ctx[t].i = b /\ ctx[t].n = n

\* C13: a round of CacheDb::evict(n) removes from its bucket exactly
\* min(n / N, cold) entries, all of them linked in the LRU list of the bucket,
\* and nothing from the other buckets.
C13_EvictBoundedByCold ==
    [][\A t \in Evictors, n \in 0..MaxEvict, b \in Buckets :
          RoundOf(t, b, n) =>
              /\ Removed \subseteq {k \in map[b] : InSeq(lru_list[b], k)}
              /\ Cardinality(Removed) =
                     (IF n \div N <= cold[b] THEN n \div N ELSE cold[b])
              /\ ctx[t].gone + Cardinality(Removed) <= n]_vars

\* after evict(2) on two buckets: bucket 0 gave one of its two cold entries,
\* bucket 1 had a single entry, which was in use and stays
C13_Witness ==
    /\ N = 2
    /\ ret = Res("evicted", 1)
    /\ cold[0] = 1 /\ Cardinality(map[0]) = 1
    /\ cold[1] = 0 /\ Cardinality(map[1]) = 1

\* C14: a CacheDb::evict that finds lru_disabled above 0 returns 0 and leaves
\* every map, LRU list and cold counter as it is.
C14_DisabledEvictIsNoop ==
    [][\A t \in Evictors, n \in 0..MaxEvict :
          lru_disabled # 0 /\ evict_begin(t, n) =>
              /\ ret' = Res("evicted", 0)
              /\ pc'[t] = "idle"
              /\ UNCHANGED <<shared, stale>>]_vars

\* evict has returned 0 with the eviction disabled and a cold entry in the bucket
C14_Witness ==
    /\ lru_disabled > 0
    /\ ret = Res("evicted", 0)
    /\ cold[0] > 0
    /\ \A t \in Threads : pc[t] = "idle"

\* C15: while more disable_lru_eviction than enable_lru_eviction
\* calls have completed, no insert, get_or_insert or get_or_insert_mut removes
\* an entry.
C15_NoRemovalWhileDisabled ==
    [][\A t \in Threads :
          lru_disabled > 0 /\ pc[t] \in {"idle", "miss"} /\ pc'[t] \in {"miss", "ctor"}
              => Removed = {}]_vars

\* What does hold of the counter: a miss of insert, get_or_insert or
\* get_or_insert_mut reads it once; when it reads a value other than 0 it
\* removes no entry, and it reads 0 exactly when the disable and enable calls
\* completed so far are balanced.
C15_CounterReadDecides ==
    [][\A t \in Threads :
          /\ pc[t] = "idle" /\ pc'[t] = "miss" =>
                 /\ ctx'[t].lru = (lru_disabled = 0)
                 /\ Removed = {}
          /\ pc[t] = "miss" /\ pc'[t] = "ctor" /\ ~ctx[t].lru => Removed = {}]_vars

\* a miss went through with the eviction disabled: three entries, two of them
\* cold, are all still there
C15_Witness ==
    \E t \in Threads :
        /\ pc[t] = "ctor"
        /\ lru_disabled > 0
        /\ Cardinality(map[0]) = 3
        /\ cold[0] = 2

\* C16: enable_lru_eviction at counter 0 does not go through, and the counter
\* never wraps below 0 to 2^32 - 1.
C16_NoWrap ==
    /\ [](lru_disabled >= 0)
    /\ [][\A t \in Threads : enable_lru_eviction(t) => lru_disabled > 0]_vars

\* a stands before b in the sequence s
Before(s, a, b) ==
    \E i, j \in 1..Len(s) : i < j /\ s[i] = a /\ s[j] = b

\* C17: an entry that becomes idle is appended at the back of the LRU list of
\* its bucket, the entries that stay in the list keep their order, and an
\* eviction never removes an entry while one that stands before it in the list
\* (idle for longer, not used since) stays in the map.
C17_LruOrder ==
    [][\A b \in Buckets : \A k \in Keys :
          /\ ~InSeq(lru_list[b], k) /\ InSeq(lru_list'[b], k)
                 => lru_list'[b] = Append(lru_list[b], k)
          /\ \A a \in Keys :
                 Before(lru_list[b], a, k) =>
                     /\ k \in Removed => a \in Removed
                     /\ InSeq(lru_list'[b], a) /\ InSeq(lru_list'[b], k)
                            => Before(lru_list'[b], a, k)]_vars

\* the first round of an evict took one of two idle entries of bucket 0
C17_Witness ==
    \E t \in Evictors :
        /\ N = 2
        /\ pc[t] = "evict"
        /\ ctx[t].i = 1
        /\ ctx[t].gone = 1
        /\ cold[0] = 1
        /\ Len(lru_list[0]) = 1

\* C18: the drop that makes an entry idle whose guard was marked with expire()
\* puts the entry at the front of the LRU list of its bucket.
C18_ExpiredGoesToFront ==
    [][\A k \in Keys :
          /\ InMap(k) /\ ent[k].expire
          /\ ent[k].use_count = 1 /\ ent'[k].use_count = 0
          => /\ lru_list'[bucket(k)] # <<>>
             /\ Head(lru_list'[bucket(k)]) = k]_vars

\* t holds the value lock of k's entry through a guard of the given kind
HoldsValueLock(t, k, kind) ==
    /\ held[t][k][kind] > 0
    /\ IF kind = "w" THEN ent[k].writer = t ELSE ent[k].readers > 0

\* C19: the locks are taken in the order map mutex, LRU mutex, value lock: a
\* thread does not take the map mutex or the LRU mutex while it holds the value
\* lock of the same operation or guard.  The constructor and the locking after a
\* hit touch nothing that the two mutexes protect, and the drop of a guard does
\* not enter Bucket::unuse_entry (LRU mutex) with its value lock still held.
C19_LockOrder ==
    [][\A t \in Threads :
          /\ pc[t] \in {"ctor", "lock"} /\ pc'[t] # pc[t]
                 => UNCHANGED <<map, lru_list, cold>>
          /\ \A k \in HotKeys, kind \in {"r", "w"} :
                 HoldsValueLock(t, k, kind) => ~drop_guard(t, k, kind)]_vars

\* C20: with at most one guard per thread, guards that are dropped in the end
\* and constructors that terminate, every call and every guard drop that a
\* thread has begun completes under fair scheduling.
C20_CallsComplete ==
    \A t \in Threads : (pc[t] # "idle") ~> (pc[t] = "idle")

\* C21: a thread that waits for a value lock or runs a constructor holds no
\* mutex of the bucket: a lookup of another key of the same bucket by another
\* thread can start and can come to its end.
C21_LockedItemsDontBlock ==
    \A t1 \in Threads, t2 \in Threads, k \in HotKeys :
        ( /\ t1 # t2
          /\ pc[t1] \in {"lock", "ctor"}
          /\ ctx[t1].key # k
          /\ bucket(ctx[t1].key) = bucket(k)
          /\ InMap(k) )
        => /\ ( /\ Idle(t2) /\ ent[k].use_count < MaxUse /\ GuardCount(t2) < MaxGuards
                /\ \A t3 \in Threads : pc[t3] # "miss" )
              => ENABLED lookup(t2, "r", k, "TryLock")
           /\ (pc[t2] = "lock" /\ ctx[t2].key = k /\ ctx[t2].method = "TryLock")
              => ENABLED lock_value(t2)

\* a read guard was handed out for key 1 while the constructor of key 0 runs
C21_Witness ==
    \E t1 \in Threads, t2 \in Threads :
        /\ t1 # t2
        /\ pc[t1] = "ctor" /\ ctx[t1].key = 0
        /\ ret.tag = "ReadGuard"
        /\ held[t2][1].r > 0

\* C22: from the insertion of the entry to the return of get_or_insert the
\* constructing thread keeps the value lock: it holds the write lock while the
\* constructor runs, no other thread is given a guard on the entry in between,
\* and the call returns with the write lock turned into a read lock in the same
\* step, the entry holding the value that the constructor produced.
C22_DowngradeWithoutWindow ==
    [][\A t \in Threads : \A k \in HotKeys :
          (pc[t] = "ctor" /\ ctx[t].key = k /\ ctx[t].op = "get_or_insert") =>
              /\ ent[k].writer = t
              /\ \A t2 \in Threads \ {t} : held'[t2][k] = held[t2][k]
              /\ pc'[t] # "ctor" =>
                     /\ pc'[t] = "idle"
                     /\ ret'.tag \in {"ReadGuard", "CtorErr"}
                     /\ ret'.tag = "ReadGuard" =>
                            /\ ent'[k].value \in CtorValues
                            /\ ent'[k].writer = 0
                            /\ ent'[k].readers = 1
                            /\ held'[t][k].r = held[t][k].r + 1]_vars

\* another thread than t keeps the value lock of k in a way that conflicts with
\* a lock of the given kind: through a guard, a guard that is being dropped, or
\* the write lock of a construction (of the entry that is in the map now, not
\* of one that was freed)
Conflict(t, k, kind) ==
    \E t2 \in Threads \ {t} :
      /\ <<t2, k>> \notin stale
      /\
        \/ held[t2][k].w > 0
        \/ pc[t2] = "ctor" /\ ctx[t2].key = k
        \/ pc[t2] = "unlock" /\ ctx[t2].key = k /\ ctx[t2].kind = "w"
        \/ kind = "w" /\ held[t2][k].r > 0
        \/ kind = "w" /\ pc[t2] = "unlock" /\ ctx[t2].key = k

\* no thread keeps the value lock of k in any way
Uncontended(k) ==
    \A t2 \in Threads :
        /\ held[t2][k].r + held[t2][k].w = 0
        /\ pc[t2] \in {"ctor", "unlock"} => ctx[t2].key # k

\* C23: a lookup with TryLock or with a timeout on a present key comes to an end
\* whatever the lock's state; on an entry whose lock nobody keeps it returns the
\* guard, and with TryLock it fails with LockUnavailable when another thread
\* keeps a conflicting lock.
C23_TryLockAnswers ==
    [][\A t \in Threads :
          (pc[t] = "lock" /\ ctx[t].method # "Blocking") =>
              /\ ENABLED lock_value(t)
              /\ pc'[t] = "idle" =>
                     /\ Uncontended(ctx[t].key) => ret'.tag = GuardTag(ctx[t].kind)
                     /\ ctx[t].method = "TryLock" /\ Conflict(t, ctx[t].key, ctx[t].kind)
                            => ret'.tag = "LockUnavailable"]_vars

\* C24: a thread that holds a read guard on a key and asks for another one
\* with Recursive(..) is not kept waiting and is given the guard, which reads
\* the same value; every drop of one of the guards takes one use from the
\* entry, and the drop that takes the last one links the entry once.
C24_RecursiveReads ==
    [][\A t \in Threads : \A k \in LiveKeys :
          /\ (pc[t] = "lock" /\ ctx[t].rec /\ ctx[t].key = k /\ held[t][k].r > 0) =>
                 /\ ENABLED lock_value(t)
                 /\ pc'[t] = "idle" =>
                        /\ ret'.tag = "ReadGuard"
                        /\ held'[t][k].r = held[t][k].r + 1
                        /\ ent'[k].value = ent[k].value
                        /\ ent'[k].use_count = ent[k].use_count
          /\ (held[t][k].r > 1 /\ held'[t][k].r < held[t][k].r) =>
                 /\ ent'[k].use_count = ent[k].use_count - 1
                 /\ ent'[k].use_count > 0
                 /\ ~InSeq(lru_list'[bucket(k)], k)]_vars

\* C25: over a whole run no more constructors are invoked than distinct keys
\* are asked for, that is, no key has a constructor invoked for it, loses its
\* entry and has a constructor invoked again.
C25_CtorsBoundedByKeys ==
    \A k \in Keys :
        [](ent[k].ctors >= 1 => [](~InMap(k) => [](ent[k].ctors = 0)))

\* C25, amended: one constructor is invoked for every entry that is inserted,
\* by the call that inserted it and before that call returns; an entry never
\* sees a second one, and a key whose entry was evicted starts again at none.
C25_OneCtorPerEntry ==
    [][\A k \in Keys :
          /\ ent'[k].ctors <= 1
          /\ ent'[k].ctors > ent[k].ctors =>
                 \E t \in Threads : pc[t] = "ctor" /\ ctx[t].key = k /\ pc'[t] = "idle"
          /\ \A t \in Threads :
                 (pc[t] = "ctor" /\ ctx[t].key = k /\ pc'[t] # "ctor") =>
                     ent'[k].ctors = ent[k].ctors + 1
          /\ (~InMap(k) /\ InMap(k)') =>
                 /\ ent'[k].ctors = 0
                 /\ \E t \in Threads : pc'[t] = "ctor" /\ ctx'[t].key = k]_vars

\* the constructor of a key runs while a thread still has its reference to the
\* evicted entry of that key, which had been constructed before
C25_Witness ==
    \E t1 \in Threads, t2 \in Threads, k \in Keys :
        /\ <<t1, k>> \in stale
        /\ pc[t1] = "unlock"
        /\ pc[t2] = "ctor" /\ ctx[t2].key = k

\* the key is stored in the cache, whatever the bucket
Present(k) == \E b \in Buckets : k \in map[b]

\* the step leaves every key but k as it is: stored or not, and its entry
OthersKept(k) ==
    \A k2 \in Keys \ {k} : (Present(k2)' <=> Present(k2)) /\ ent'[k2] = ent[k2]

\* C26: with the LRU eviction disabled, what a call returns and what it does to
\* the entries is the same for one bucket and for several: a key is only stored
\* in its own bucket, nothing is ever removed, and every call answers from
\* whether its key is stored at all and from that key's entry, and touches no
\* other key.
C26_ShardsDontShow ==
    [][lru_disabled > 0 =>
         /\ \A b \in Buckets : \A k \in map[b] : bucket(k) = b
         /\ \A k \in Keys : Present(k) => Present(k)'
         /\ \A t \in Evictors :
              /\ pc[t] # "idle" => \A k \in Keys \ {ctx[t].key} : ent'[k] = ent[k]
              /\ Idle(t) => \A k \in Keys :
                   /\ contains_key(t, k) =>
                          ret'.tag = (IF Present(k) THEN "true" ELSE "false")
                   /\ (get(t, k, "Blocking", FALSE) \/ get_mut(t, k, "Blocking", FALSE)) =>
                          /\ OthersKept(k)
                          /\ IF Present(k)
                             THEN /\ pc'[t] = "lock"
                                  /\ ent'[k] = [ent[k] EXCEPT !.use_count = @ + 1]
                             ELSE ret'.tag = "NoEntry" /\ ~Present(k)' /\ ent'[k] = ent[k]
                   /\ ( \/ insert(t, k)
                        \/ get_or_insert(t, k, "Blocking", FALSE)
                        \/ get_or_insert_mut(t, k, "Blocking", FALSE) ) =>
                          /\ OthersKept(k)
                          /\ Present(k)'
                          /\ IF Present(k)
                             THEN /\ ent'[k] = [ent[k] EXCEPT !.use_count = @ + 1]
                                  /\ pc'[t] = "lock" \/ ret'.tag = "Ok_false"
                             ELSE /\ pc'[t] = "ctor"
                                  /\ ent'[k] = Locked(Entry_new, "w", t)]_vars

\* contains_key has found a key of the second bucket while the eviction is off
C26_Witness ==
    /\ N = 2
    /\ lru_disabled > 0
    /\ ret.tag = "true"
    /\ map[0] # {}
    /\ map[1] # {}

\* C27: an insert on a key that is stored returns Ok(false) and leaves the
\* entry's use_count, the LRU lists and the cold counters as they were.
C27_InsertPresentKeepsUsage ==
    [][\A t \in Threads : Idle(t) => \A k \in Keys :
          (InMap(k) /\ insert(t, k)) =>
              /\ ret'.tag = "Ok_false"
              /\ ent'[k].use_count = ent[k].use_count
              /\ lru_list' = lru_list
              /\ cold' = cold]_vars

\* C28: when insert returns Ok(true), the entry it has created is idle: its
\* use_count is 0 and it is linked into the LRU list of its bucket.
C28_InsertedEntryIdle ==
    [][\A t \in Threads :
          (Returns(t, "ctor", "Ok_true") /\ InMap(ctx[t].key)') =>
              /\ ent'[ctx[t].key].use_count = 0
              /\ InSeq(lru_list'[bucket(ctx[t].key)], ctx[t].key)]_vars

\* C29: on a miss the automatic eviction check runs before the new record is
\* inserted: when the check is made the key is not yet stored in the map of
\* its bucket, and it is stored once the miss has gone on to the constructor.
C29_EvictBeforeInsert ==
    [][\A t \in Threads :
          (pc[t] = "miss" /\ evict_and_lock(t)) =>
              /\ ~InMap(ctx[t].key)
              /\ InMap(ctx[t].key)']_vars

\* the eviction check of a miss never removes the record the miss has inserted
C29_NewRecordKept ==
    [][\A t \in Threads :
          (Idle(t) /\ pc'[t] = "ctor") =>
              \E k \in Keys :
                  /\ k = ctx'[t].key
                  /\ InMap(k)'
                  /\ ent'[k] = Locked(Entry_new, "w", t)]_vars

\* C30: a lookup that detaches an entry from the LRU list never raises maxused
\* above the number of entries of the bucket that are not linked after the
\* detach, which is len(map) - cold.
C30_PeakIsInUseCount ==
    [][\A t \in Threads :
          (Idle(t) /\ pc'[t] = "lock") =>
              \A b \in Buckets :
                  maxused'[b] > maxused[b] =>
                      maxused'[b] <= Cardinality(map'[b]) - cold'[b]]_vars

\* what update_maxused finds: the in-use count it computes and the peak
NowUsed(b) == Cardinality(map[b]) + 1 - cold[b]

Peak(b) == Max(maxused[b], NowUsed(b))

\* C31: update_maxused raises maxused to max(maxused, now_used); with the
\* countdown above 0 it only takes 1 off the countdown; with the countdown at 0
\* it sets the countdown to maxused_cooldown and, if that maximum is above 0 and
\* is not now_used, takes floor(maxused / maxused_reduction) + 1 off maxused.
\* The countdown never exceeds the cooldown, so that maxused_cooldown calls
\* without a decay follow every call with one.
C31_UpdateMaxused ==
    [][\A b \in Buckets :
          /\ maxused_countdown[b] <= maxused_cooldown[b]
          /\ maxused_countdown'[b] <= maxused_cooldown[b]
          /\ IF maxused_countdown[b] > 0
             THEN /\ maxused_countdown'[b] = maxused_countdown[b] - 1
                  /\ maxused'[b] = Peak(b)
             ELSE /\ maxused_countdown'[b] = maxused_cooldown[b]
                  /\ IF Peak(b) > 0 /\ Peak(b) # NowUsed(b)
                     THEN \E r \in Reductions :
                              maxused'[b] = Peak(b) - ((Peak(b) \div r) + 1)
                     ELSE maxused'[b] = Peak(b)
          /\ maxused'[b] < Peak(b) =>
                 /\ maxused_countdown[b] = 0
                 /\ maxused_countdown'[b] = maxused_cooldown[b]]_vars

\* update_maxused has returned a peak above the in-use count, with one more
\* call to go before the countdown is back at 0
C31_Witness ==
    /\ ret.tag = "maxused"
    /\ ret.val = maxused[0]
    /\ maxused_cooldown[0] = MaxCooldown
    /\ maxused_countdown[0] = 1
    /\ maxused[0] > NowUsed(0)

\* C32: for every maxused_reduction >= 1, update_maxused leaves maxused at or
\* above the in-use count it has computed, which is not negative, and neither
\* of its subtractions goes below 0.
C32_DecayStopsAtNowUsed ==
    [][\A b \in Buckets :
          ret'.tag = "maxused" =>
              /\ NowUsed(b) >= 0
              /\ maxused'[b] >= 0
              /\ maxused'[b] >= NowUsed(b)]_vars

\* ... which does hold as long as nothing is taken off the peak
C32_PeakWithoutDecay ==
    [][\A b \in Buckets :
          (ret'.tag = "maxused" /\ maxused_countdown[b] > 0) =>
              /\ NowUsed(b) >= 1
              /\ maxused'[b] >= NowUsed(b)]_vars

\* the percentage between cold_max and cold_min that the linear interpolation
\* over min_entries_limit..max_entries_limit gives for a peak
Interpolated(peak) ==
    IF peak <= min_entries_limit THEN cold_max
    ELSE IF peak >= max_entries_limit THEN cold_min
    ELSE cold_max - (((cold_max - cold_min) * (peak - min_entries_limit))
                        \div (max_entries_limit - min_entries_limit))

\* C33: the cold_target of every bucket lies between cold_min and cold_max and
\* is the linear interpolation of the bucket's maxused over
\* min_entries_limit..max_entries_limit.
C33_ColdTargetInterpolated ==
    \A b \in Buckets :
        /\ cold_min <= cold_target_default
        /\ cold_target_default <= cold_max
        /\ cold_target_default = Interpolated(maxused[b])

====
